---- MODULE Spec2Model ----
(***************************************************************************)
(* State-machine model of bot.py: a Telegram bot that gates delivery of    *)
(* archived videos behind a channel-membership check, resolves requests by *)
(* id (deep link) or by name (search conversation), and deletes what it    *)
(* delivered after a delay.                                                *)
(*                                                                         *)
(* Text is a sequence of one-character strings, so that strip(), LIKE and  *)
(* the numeric conversion of a deep-link argument are computed character   *)
(* by character.  One handler is one action: the Application is built with *)
(* the default (sequential) update processing, so handlers do not          *)
(* interleave with one another; only the tasks made with create_task run   *)
(* between them.  A handler is an operator that yields the set of runs it  *)
(* can make from the current state, one per outcome of the store and of    *)
(* the transport; a run is the state it leaves and the trace of what it    *)
(* did.  The action of the handler takes one of its runs.                  *)
(***************************************************************************)
EXTENDS Integers, Sequences, FiniteSets, TLC

(* ------------------------------ bounds -------------------------------- *)
MaxUsers == 2      \* user ids 1..MaxUsers (private chats: chat id = user id)
MaxPosts == 2      \* videos posted in the archive channel
MaxMsgId == 2      \* message ids the transport hands out per chat
MaxChannels == 3   \* longest list of required channels tried on the gate

(* --------------------------- configuration ---------------------------- *)
Users == 1..MaxUsers
ADMIN_ID == 1
CHANNELS_TO_JOIN == <<"@lexobit">>
GET_MOVIE_NAME == 1
\* ConversationHandler.END; also the state of a conversation that is not running
END == -1

(* ------------------------------ inputs -------------------------------- *)
\* what get_chat_member can produce: a ChatMember status, or an exception
MemberStatuses == {"member", "administrator", "creator"}
Outcomes == MemberStatuses \cup {"restricted", "left", "kicked", "error"}

\* the label of the search button (without its leading pictograph)
SEARCH_TEXT == <<"S", "e", "a", "r", "c", "h">>

\* captions of the videos posted in the archive channel; <<>> is "no caption"
Captions == { <<"a", "b">>, <<"B", " ">>, <<" ", "B">>, <<>> }
\* free text a user types, and the joined arguments of an admin command
Queries == { <<"a">>, <<"b">>, <<"_">>, <<"x">> }
Texts == Queries \cup {SEARCH_TEXT}

(* ---------------------------- pure helpers ---------------------------- *)
RECURSIVE LStrip(_)
LStrip(s) == IF s # <<>> /\ Head(s) = " " THEN LStrip(Tail(s)) ELSE s

RECURSIVE RStrip(_)
RStrip(s) ==
  IF s # <<>> /\ s[Len(s)] = " " THEN RStrip(SubSeq(s, 1, Len(s) - 1)) ELSE s

\* str.strip()
Strip(s) == RStrip(LStrip(s))

\* LIKE folds the case of ASCII letters
Lower(c) ==
  CASE c = "A" -> "a"
    [] c = "B" -> "b"
    [] c = "S" -> "s"
    [] OTHER -> c

\* SQLite's LIKE: % matches any run of characters, _ any one character, a
\* letter matches itself in either case
RECURSIVE LikeMatch(_, _)
LikeMatch(p, s) ==
  IF p = <<>> THEN s = <<>>
  ELSE IF Head(p) = "%"
    THEN LikeMatch(Tail(p), s) \/ (s # <<>> /\ LikeMatch(p, Tail(s)))
  ELSE IF s = <<>> THEN FALSE
  ELSE IF Head(p) = "_" THEN LikeMatch(Tail(p), Tail(s))
  ELSE Lower(Head(p)) = Lower(Head(s)) /\ LikeMatch(Tail(p), Tail(s))

\* a match that compares letters exactly and knows no wildcard
NameLike_case_sensitive(name, query) ==
  \E i \in 0..(Len(name) - Len(query)) : SubSeq(name, i + 1, i + Len(query)) = query

\* name LIKE '%query%'
NameLike(name, query) == LikeMatch(<<"%">> \o query \o <<"%">>, name)

Digits == <<"0", "1", "2", "3", "4", "5", "6", "7", "8", "9">>
IsDigit(c) == \E d \in 1..10 : Digits[d] = c
DigitVal(c) == (CHOOSE d \in 1..10 : Digits[d] = c) - 1

RECURSIVE DecimalValue(_)
DecimalValue(s) ==
  IF s = <<>> THEN 0
  ELSE 10 * DecimalValue(SubSeq(s, 1, Len(s) - 1)) + DigitVal(s[Len(s)])

\* str(video_id), as the link of get_link spells an id
RECURSIVE IdToArg(_)
IdToArg(i) ==
  IF i < 10 THEN <<Digits[i + 1]>>
  ELSE IdToArg(i \div 10) \o <<Digits[(i % 10) + 1]>>

\* the argument of /start <arg>: the ids a link can spell, an id with a
\* leading zero, and text that is no number
DeepArgs == {IdToArg(i) : i \in 1..MaxPosts} \cup { <<"0", "1">>, <<"x">> }

\* "id = ?" with a text parameter: the INTEGER column gives the text numeric
\* affinity, so a run of digits is compared as the integer it spells and any
\* other text equals no id (-1 here).  Signs, blanks and real literals, which
\* SQLite also converts, are not among DeepArgs.
ArgToId(arg) ==
  IF arg # <<>> /\ \A i \in 1..Len(arg) : IsDigit(arg[i])
    THEN DecimalValue(arg)
    ELSE -1

\* is_user_member that answers from the first channel alone
is_user_member_first_only(channels, outs) ==
  channels = <<>> \/ Head(outs) \in MemberStatuses

\* is_user_member over a list of channels and the outcome of each lookup:
\* the first lookup that raises or reports another status answers False
RECURSIVE is_user_member(_, _)
is_user_member(channels, outs) ==
  IF channels = <<>> THEN TRUE
  ELSE IF Head(outs) \notin MemberStatuses THEN FALSE
  ELSE is_user_member(Tail(channels), Tail(outs))

(* ------------------------------- state -------------------------------- *)
VARIABLES
  videos,    \* table videos: records [id, name, message_id]
  users,     \* table users: the registered user ids
  conv,      \* ConversationHandler's state per user: GET_MOVIE_NAME or END
  checked,   \* per user: is_user_member returned True in the running conversation
  nextPost,  \* message id of the next post in the archive channel
  nextMsg,   \* per chat: the next message id the transport hands out
  tasks,     \* the tasks made by create_task, in creation order
  lookup     \* a membership check on its own: its channels, outcomes and answer

vars == <<videos, users, conv, checked, nextPost, nextMsg, tasks, lookup>>

\* one transport call of a handler and whether it succeeded
Call(call, what, ok) == [call |-> call, what |-> what, ok |-> ok]

\* the trace of a handler run, before the handler has done anything
Trace(op, u, input) ==
  [op |-> op, user |-> u, input |-> input,
   db |-> "none",        \* the store access: none, ok, fail
   gate |-> "none",      \* is_user_member in this run: none, pass, deny
   checked |-> FALSE,    \* a check for this user passed in this run or conversation
   found |-> "none",     \* the lookup for delivery: none, hit, miss
   video |-> 0,          \* id of the row the lookup returned (0: none)
   locator |-> 0,        \* message_id handed to copy_message (0: no copy call)
   sent |-> 0,           \* id of the copied message (0: nothing copied)
   warning |-> 0,        \* id of the warning notice (0: none)
   calls |-> <<>>,       \* the transport calls, in order
   task |-> 0,           \* index in tasks of the cleanup made (0: none)
   raised |-> FALSE]     \* an exception left the handler

\* a run that has changed nothing yet
Run(tr) ==
  [tr |-> tr, videos |-> videos, users |-> users, conv |-> conv,
   checked |-> checked, nextPost |-> nextPost, nextMsg |-> nextMsg, tasks |-> tasks]

\* the handler's run becomes the state
Apply(run) ==
  /\ videos' = run.videos
  /\ users' = run.users
  /\ conv' = run.conv
  /\ checked' = run.checked
  /\ nextPost' = run.nextPost
  /\ nextMsg' = run.nextMsg
  /\ tasks' = run.tasks
  /\ UNCHANGED lookup

\* outcomes of the lookups of one is_user_member call of a handler: the
\* handlers see the answer only, so one status that passes and one outcome
\* that does not stand for the rest
GateOuts == [1..Len(CHANNELS_TO_JOIN) -> {"member", "error"}]

NoLookup == [channels |-> <<>>, outs |-> <<>>, answer |-> "none"]

InitBot ==
  /\ videos = {}
  /\ users = {}
  /\ conv = [u \in Users |-> END]
  /\ checked = [u \in Users |-> FALSE]
  /\ nextPost = 1
  /\ nextMsg = [u \in Users |-> 1]
  /\ tasks = <<>>

Init == InitBot /\ lookup = NoLookup

(* --------------------------- content index ---------------------------- *)
\* a lookup on the wrong column
FindById_by_message_id(video_id) == {r \in videos : r.message_id = ArgToId(video_id)}

\* SELECT message_id FROM videos WHERE id = ?
FindById(video_id) == {r \in videos : r.id = ArgToId(video_id)}

\* SELECT ... FROM videos WHERE name LIKE '%query%'
FindByName(query) == {r \in videos : NameLike(r.name, query)}

\* INTEGER PRIMARY KEY: a new row gets the largest id in the table plus one
NextId ==
  IF videos = {} THEN 1
  ELSE (CHOOSE i \in {r.id : r \in videos} : \A r \in videos : r.id <= i) + 1

\* name TEXT NOT NULL UNIQUE: the insert is refused when the name is taken
UniqueViolated(name) == \E r \in videos : r.name = name

\* a table whose name column is not UNIQUE
InsertVideo_no_unique(name, message_id) ==
  videos \cup {[id |-> NextId, name |-> name, message_id |-> message_id]}

\* INSERT INTO videos (name, message_id): the table after the insert, or the
\* table as it was when the UNIQUE constraint refuses the row
InsertVideo(name, message_id) ==
  IF UniqueViolated(name) THEN videos
  ELSE videos \cup {[id |-> NextId, name |-> name, message_id |-> message_id]}

\* DELETE FROM videos WHERE name = query
DeleteByName_exact_name(query) == {r \in videos : r.name # query}

\* DELETE FROM videos WHERE name LIKE '%query%'
DeleteByName(query) == videos \ FindByName(query)

(* ------------------------------ delivery ------------------------------ *)
\* the run ends with one reply, which the transport may refuse
ReplyOnly(run, what) ==
  { [run EXCEPT !.tr.calls = Append(@, Call("reply_text", what, ok)),
                !.tr.raised = ~ok] : ok \in BOOLEAN }

\* the run ends with the store's exception, before any reply
StoreFails(run) == { [run EXCEPT !.tr.db = "fail", !.tr.raised = TRUE] }

\* the except branch that reports nothing
OnDeliveryError_silent(run) == {run}

\* the except branch of a delivery: the error reply
OnDeliveryError(run) == ReplyOnly(run, "error")

\* ids_to_delete without the warning notice
CleanupIds_video_only(sent, warning) == <<sent>>

\* ids_to_delete
CleanupIds(sent, warning) == <<sent, warning>>

\* copy_message of row r into the chat of u, the warning notice and
\* create_task; an exception of either call is answered by the except
\* branch, and no task is made
Deliver(u, run, r) ==
  LET hit == [run EXCEPT !.tr.found = "hit", !.tr.video = r.id,
                         !.tr.locator = r.message_id]
      copyFails == [hit EXCEPT !.tr.calls = <<Call("copy_message", "video", FALSE)>>]
      copied == [hit EXCEPT !.tr.sent = nextMsg[u],
                            !.tr.calls = <<Call("copy_message", "video", TRUE)>>,
                            !.nextMsg[u] = @ + 1]
      warnFails == [copied EXCEPT
                      !.tr.calls = Append(@, Call("reply_text", "warning", FALSE))]
      warned == [copied EXCEPT
                   !.tr.warning = nextMsg[u] + 1,
                   !.tr.calls = Append(@, Call("reply_text", "warning", TRUE)),
                   !.nextMsg[u] = @ + 1]
      scheduled == [warned EXCEPT
                      !.tr.task = Len(tasks) + 1,
                      !.tasks = Append(@, [chat |-> u,
                                           message_ids |-> CleanupIds(warned.tr.sent,
                                                                      warned.tr.warning),
                                           pc |-> 0, log |-> <<>>])]
  IN  IF nextMsg[u] + 1 > MaxMsgId THEN {}
      ELSE OnDeliveryError(copyFails) \cup OnDeliveryError(warnFails) \cup {scheduled}

(* ------------------------------ handlers ------------------------------ *)
\* the lookup by id and what follows it
ResolveById(u, run, video_id) ==
  LET ok == [run EXCEPT !.tr.db = "ok"]
  IN  StoreFails(run) \cup
      ( IF FindById(video_id) = {}
          THEN ReplyOnly([ok EXCEPT !.tr.found = "miss"], "invalid")
          ELSE UNION { Deliver(u, ok, r) : r \in FindById(video_id) } )

\* send_video_by_id without the return after the join prompt
send_video_by_id_falls_through(u, video_id, outs) ==
  LET member == is_user_member(CHANNELS_TO_JOIN, outs)
      run == Run([Trace("send_video_by_id", u, video_id) EXCEPT
                    !.gate = IF member THEN "pass" ELSE "deny", !.checked = member])
  IN  ResolveById(u, run, video_id)

send_video_by_id(u, video_id, outs) ==
  LET member == is_user_member(CHANNELS_TO_JOIN, outs)
      run == Run([Trace("send_video_by_id", u, video_id) EXCEPT
                    !.gate = IF member THEN "pass" ELSE "deny", !.checked = member])
  IN  IF ~member THEN ReplyOnly(run, "join")
      ELSE ResolveById(u, run, video_id)

\* INSERT OR IGNORE INTO users: an exception is printed and swallowed
RegisterUser(u) == {users, users \cup {u}}

\* /start registered as a fallback that ends the conversation
start_as_fallback(u, args, outs) ==
  { [run EXCEPT !.users = us, !.conv[u] = END, !.checked[u] = FALSE] :
      run \in ( IF args # <<>> THEN send_video_by_id(u, args[1], outs)
                ELSE ReplyOnly(Run(Trace("start", u, <<>>)), "menu") ),
      us \in RegisterUser(u) }

\* /start: register the user, then the deep link if there is an argument,
\* else the menu
start(u, args, outs) ==
  { [run EXCEPT !.users = us] :
      run \in ( IF args # <<>> THEN send_video_by_id(u, args[1], outs)
                ELSE ReplyOnly(Run(Trace("start", u, <<>>)), "menu") ),
      us \in RegisterUser(u) }

\* the gate is not asked when /start has no argument
StartOuts(args) == IF args = <<>> THEN {<<"member">>} ELSE GateOuts

\* ask_for_movie_name that opens the conversation whatever the gate said
AskReturn_always_opens(member) == GET_MOVIE_NAME

\* what ask_for_movie_name returns
AskReturn(member) == IF member THEN GET_MOVIE_NAME ELSE END

\* a ConversationHandler that keeps one state for all users
Conversation_shared(u, run, ret, member) ==
  LET state == IF run.tr.raised THEN conv[u] ELSE ret
  IN  [run EXCEPT !.conv = [v \in Users |-> state],
                  !.checked = [v \in Users |->
                                 IF state = GET_MOVIE_NAME THEN checked[v] \/ member
                                 ELSE FALSE]]

\* the conversation of u after a handler of the ConversationHandler ran: an
\* exception leaves the state as it was, else the returned state is stored
Conversation(u, run, ret, member) ==
  LET state == IF run.tr.raised THEN conv[u] ELSE ret
  IN  [run EXCEPT !.conv[u] = state,
                  !.checked[u] = IF state = GET_MOVIE_NAME THEN @ \/ member ELSE FALSE]

\* entry point: the search button, while no conversation is running
ask_for_movie_name(u, outs) ==
  LET member == is_user_member(CHANNELS_TO_JOIN, outs)
      run == Run([Trace("ask_for_movie_name", u, SEARCH_TEXT) EXCEPT
                    !.gate = IF member THEN "pass" ELSE "deny", !.checked = member])
  IN  IF conv[u] # END THEN {}
      ELSE { Conversation(u, r, AskReturn(member), member) :
               r \in ReplyOnly(run, IF member THEN "prompt" ELSE "join") }

\* the lookup by name and what follows it; fetchone() takes the first row of
\* an unordered SELECT, which may be any of the matching rows
ResolveByName(u, run, query) ==
  LET ok == [run EXCEPT !.tr.db = "ok"]
  IN  StoreFails(run) \cup
      ( IF FindByName(query) = {}
          THEN ReplyOnly([ok EXCEPT !.tr.found = "miss"], "notfound")
          ELSE UNION { Deliver(u, ok, r) : r \in FindByName(query) } )

\* state GET_MOVIE_NAME: any text that is not a command is the query
search_received_movie_name(u, text) ==
  LET run == Run([Trace("search_received_movie_name", u, text) EXCEPT
                    !.checked = checked[u]])
  IN  IF conv[u] # GET_MOVIE_NAME THEN {}
      ELSE { Conversation(u, r, END, FALSE) : r \in ResolveByName(u, run, text) }

\* /cancel: the fallback of a running conversation, else the plain command
cancel_search(u) ==
  { IF conv[u] = GET_MOVIE_NAME THEN Conversation(u, r, END, FALSE) ELSE r :
      r \in ReplyOnly(Run(Trace("cancel_search", u, <<>>)), "cancel") }

help_command(u) == ReplyOnly(Run(Trace("help_command", u, <<>>)), "help")

\* the two COUNT queries, then the reply
bot_stats(u) ==
  LET run == Run(Trace("bot_stats", u, <<>>))
  IN  StoreFails(run) \cup ReplyOnly([run EXCEPT !.tr.db = "ok"], "stats")

\* /getlink <name>: admin only; the link carries the id of the first row found
get_link(u, query) ==
  LET run == Run(Trace("get_link", u, query))
      ok == [run EXCEPT !.tr.db = "ok"]
  IN  IF u # ADMIN_ID THEN {run}
      ELSE IF query = <<>> THEN ReplyOnly(run, "usage")
      ELSE StoreFails(run) \cup
           ( IF FindByName(query) = {}
               THEN ReplyOnly([ok EXCEPT !.tr.found = "miss"], "nolink")
               ELSE UNION { ReplyOnly([ok EXCEPT !.tr.found = "hit", !.tr.video = r.id],
                                      "link") : r \in FindByName(query) } )

\* /delvideo without the admin check
delete_video_no_admin_check(u, query) ==
  LET run == Run(Trace("delete_video", u, query))
      ok == [run EXCEPT !.tr.db = "ok"]
  IN  IF query = <<>> THEN ReplyOnly(run, "usage")
      ELSE StoreFails(run) \cup
           ( IF FindByName(query) = {}
               THEN ReplyOnly([ok EXCEPT !.tr.found = "miss"], "nothing_deleted")
               ELSE ReplyOnly([ok EXCEPT !.tr.found = "hit",
                                         !.videos = DeleteByName(query)], "deleted") )

\* /delvideo that also drops the cleanup tasks that are pending
delete_video_cancels_cleanup(u, query) ==
  LET run == Run(Trace("delete_video", u, query))
      ok == [run EXCEPT !.tr.db = "ok"]
  IN  IF u # ADMIN_ID THEN {run}
      ELSE IF query = <<>> THEN ReplyOnly(run, "usage")
      ELSE StoreFails(run) \cup
           ( IF FindByName(query) = {}
               THEN ReplyOnly([ok EXCEPT !.tr.found = "miss"], "nothing_deleted")
               ELSE ReplyOnly([ok EXCEPT !.tr.found = "hit",
                                         !.videos = DeleteByName(query),
                                         !.tasks = <<>>], "deleted") )

\* /delvideo <name>: admin only; the DELETE runs when the SELECT finds a row
delete_video(u, query) ==
  LET run == Run(Trace("delete_video", u, query))
      ok == [run EXCEPT !.tr.db = "ok"]
  IN  IF u # ADMIN_ID THEN {run}
      ELSE IF query = <<>> THEN ReplyOnly(run, "usage")
      ELSE StoreFails(run) \cup
           ( IF FindByName(query) = {}
               THEN ReplyOnly([ok EXCEPT !.tr.found = "miss"], "nothing_deleted")
               ELSE ReplyOnly([ok EXCEPT !.tr.found = "hit",
                                         !.videos = DeleteByName(query)], "deleted") )

\* the run ends with one send_message to the admin, which may be refused
AdminSend(run, what) ==
  { [run EXCEPT !.tr.calls = Append(@, Call("send_message", what, ok)),
                !.tr.raised = ~ok] : ok \in BOOLEAN }

\* a video posted in the archive channel.  The notice of success is inside
\* the try block: when it raises, the row stays and the admin is sent the
\* indexing error
index_video(caption) ==
  LET run == [Run(Trace("index_video", 0, caption)) EXCEPT !.nextPost = @ + 1]
      name == Strip(caption)
      ok == [run EXCEPT !.tr.db = "ok"]
      row == [ok EXCEPT !.tr.video = NextId, !.tr.locator = nextPost,
                        !.videos = InsertVideo(name, nextPost)]
  IN  IF nextPost > MaxPosts THEN {}
      ELSE IF caption = <<>> THEN AdminSend(run, "nocaption")
      ELSE AdminSend([run EXCEPT !.tr.db = "fail"], "indexerror") \cup
           ( IF UniqueViolated(name)
               THEN AdminSend([ok EXCEPT !.videos = InsertVideo(name, nextPost)],
                              "duplicate")
               ELSE { [row EXCEPT !.tr.calls = <<Call("send_message", "indexed", TRUE)>>] }
                    \cup AdminSend([row EXCEPT !.tr.calls =
                                      <<Call("send_message", "indexed", FALSE)>>],
                                   "indexerror") )

(* --------------------------- cleanup tasks ---------------------------- *)
\* the most tasks the message ids allow
MaxTasks == MaxUsers * (MaxMsgId \div 2)

\* a loop that an exception of delete_message ends
DeleteStep_stops_on_failure(task, ok) ==
  [task EXCEPT !.log = Append(@, [chat |-> task.chat,
                                  message_id |-> task.message_ids[task.pc],
                                  ok |-> ok]),
               !.pc = IF ok THEN @ + 1 ELSE Len(task.message_ids) + 1]

\* a loop that deletes in the admin's chat
DeleteStep_wrong_chat(task, ok) ==
  [task EXCEPT !.log = Append(@, [chat |-> ADMIN_ID,
                                  message_id |-> task.message_ids[task.pc],
                                  ok |-> ok]),
               !.pc = @ + 1]

\* one round of the for loop of delete_messages_after_delay: delete_message
\* for the id at pc, its exception printed and swallowed, then the next id
DeleteStep(task, ok) ==
  [task EXCEPT !.log = Append(@, [chat |-> task.chat,
                                  message_id |-> task.message_ids[task.pc],
                                  ok |-> ok]),
               !.pc = @ + 1]

\* asyncio.sleep(delay) returns: the task enters its loop
cleanup_wake(t) ==
  /\ t \in 1..Len(tasks)
  /\ tasks[t].pc = 0
  /\ tasks' = [tasks EXCEPT ![t].pc = 1]
  /\ UNCHANGED <<videos, users, conv, checked, nextPost, nextMsg, lookup>>

cleanup_delete(t, ok) ==
  /\ t \in 1..Len(tasks)
  /\ tasks[t].pc \in 1..Len(tasks[t].message_ids)
  /\ tasks' = [tasks EXCEPT ![t] = DeleteStep(@, ok)]
  /\ UNCHANGED <<videos, users, conv, checked, nextPost, nextMsg, lookup>>

(* --------------------------- specifications --------------------------- *)
StartArgs == {<<>>} \cup {<<d>> : d \in DeepArgs}
AdminArgs == Queries \cup {<<>>}

Next ==
  \/ \E u \in Users, a \in StartArgs :
       \E outs \in StartOuts(a) : \E run \in start(u, a, outs) : Apply(run)
  \/ \E u \in Users, outs \in GateOuts :
       \E run \in ask_for_movie_name(u, outs) : Apply(run)
  \/ \E u \in Users, text \in Texts :
       \E run \in search_received_movie_name(u, text) : Apply(run)
  \/ \E u \in Users : \E run \in cancel_search(u) : Apply(run)
  \/ \E u \in Users : \E run \in help_command(u) : Apply(run)
  \/ \E u \in Users : \E run \in bot_stats(u) : Apply(run)
  \/ \E u \in Users, q \in AdminArgs : \E run \in get_link(u, q) : Apply(run)
  \/ \E u \in Users, q \in AdminArgs : \E run \in delete_video(u, q) : Apply(run)
  \/ \E c \in Captions : \E run \in index_video(c) : Apply(run)
  \/ \E t \in 1..MaxTasks : cleanup_wake(t)
  \/ \E t \in 1..MaxTasks, ok \in BOOLEAN : cleanup_delete(t, ok)

Spec == Init /\ [][Next]_vars

\* the event loop runs every task that is ready: a sleep that has elapsed
\* returns, and a delete_message call returns or raises
FairSpec ==
  /\ Spec
  /\ \A t \in 1..MaxTasks :
       /\ WF_vars(cleanup_wake(t))
       /\ WF_vars(\E ok \in BOOLEAN : cleanup_delete(t, ok))

\* the membership check on its own, over every list of up to MaxChannels
\* channels and every outcome of each lookup
GateInputs ==
  UNION { {[channels |-> [i \in 1..n |-> i], outs |-> o, answer |-> "none"] :
             o \in [1..n -> Outcomes]} : n \in 0..MaxChannels }

gate_check ==
  /\ lookup.answer = "none"
  /\ lookup' = [lookup EXCEPT !.answer =
                  IF is_user_member(lookup.channels, lookup.outs) THEN "True" ELSE "False"]
  /\ UNCHANGED <<videos, users, conv, checked, nextPost, nextMsg, tasks>>

GateInit == InitBot /\ lookup \in GateInputs

GateSpec == GateInit /\ [][gate_check]_vars

(* ------------------------- runs of the handlers ------------------------ *)
Member(outs) == \A i \in 1..Len(CHANNELS_TO_JOIN) : outs[i] \in MemberStatuses

DeepLinkRuns(u, outs) == UNION { start(u, <<d>>, outs) : d \in DeepArgs }
SearchRuns(u) == UNION { search_received_movie_name(u, text) : text \in Texts }

\* the search button's text as the ConversationHandler handles it: with no
\* allow_reentry, a conversation in GET_MOVIE_NAME tries the handlers of its
\* state, and the entry point only when no conversation is running
SearchEntry(u, outs) ==
  IF conv[u] = GET_MOVIE_NAME THEN search_received_movie_name(u, SEARCH_TEXT)
  ELSE ask_for_movie_name(u, outs)

\* every run that any handler can make from the current state satisfies P
AllRunsSatisfy(P(_)) ==
  /\ \A u \in Users :
       /\ \A a \in StartArgs : \A outs \in StartOuts(a) :
            \A run \in start(u, a, outs) : P(run)
       /\ \A outs \in GateOuts : \A run \in ask_for_movie_name(u, outs) : P(run)
       /\ \A run \in SearchRuns(u) : P(run)
       /\ \A run \in cancel_search(u) \cup help_command(u) \cup bot_stats(u) : P(run)
       /\ \A q \in AdminArgs : \A run \in get_link(u, q) \cup delete_video(u, q) : P(run)
  /\ \A c \in Captions : \A run \in index_video(c) : P(run)

\* the run issued a copy_message call
Copies(run) == \E i \in 1..Len(run.tr.calls) : run.tr.calls[i].call = "copy_message"

\* the run issued exactly the join prompt
OnlyJoinPrompt(run) ==
  /\ Len(run.tr.calls) = 1
  /\ run.tr.calls[1].call = "reply_text"
  /\ run.tr.calls[1].what = "join"

(* -------------------------------- C1 ----------------------------------- *)
\* C1: on the deep-link path and on the search entry, a run whose membership
\* check denies the user issues the join prompt and nothing else: no
\* copy_message, no cleanup task, no lookup in the content index, and the
\* search conversation is not opened.
C1_DeniedStopsAtPrompt ==
  \A u \in Users, outs \in GateOuts :
    ~Member(outs) =>
      /\ \A run \in DeepLinkRuns(u, outs) :
           /\ OnlyJoinPrompt(run)
           /\ ~Copies(run) /\ run.tr.locator = 0 /\ run.tr.sent = 0
           /\ run.tr.task = 0 /\ run.tasks = tasks /\ run.nextMsg = nextMsg
           /\ run.tr.db = "none" /\ run.tr.found = "none"
           /\ run.conv = conv
      /\ \A run \in ask_for_movie_name(u, outs) :
           /\ OnlyJoinPrompt(run)
           /\ ~Copies(run) /\ run.tr.locator = 0 /\ run.tr.sent = 0
           /\ run.tr.task = 0 /\ run.tasks = tasks /\ run.nextMsg = nextMsg
           /\ run.tr.db = "none" /\ run.tr.found = "none"
           /\ run.conv[u] = END /\ run.conv = conv

\* a denied deep link for an id that is in the index, sent by a user who
\* could still be delivered to, while another user is denied the search
C1_Witness ==
  \E u \in Users, v \in Users, d \in DeepArgs, outs \in GateOuts :
    /\ ~Member(outs)
    /\ FindById(d) # {}
    /\ nextMsg[u] + 1 <= MaxMsgId
    /\ \E run \in start(u, <<d>>, outs) : run.tr.gate = "deny"
    /\ \E run \in ask_for_movie_name(v, outs) : run.tr.gate = "deny"

(* -------------------------------- C2 ----------------------------------- *)
\* C2: the membership check answers False as soon as one lookup raises or
\* reports a status other than member, administrator, creator, and True
\* only when every channel reports one of the three.
C2_FailClosed ==
  lookup.answer # "none" =>
    ( lookup.answer = "True" <=>
        \A i \in 1..Len(lookup.channels) : lookup.outs[i] \in MemberStatuses )

\* a check that failed on its last channel only, by an exception
C2_Witness ==
  /\ lookup.answer = "False"
  /\ Len(lookup.channels) = 2
  /\ lookup.outs[1] = "member"
  /\ lookup.outs[2] = "error"

(* -------------------------------- C3 ----------------------------------- *)
CopyIsChecked(run) ==
  Copies(run) =>
    /\ run.tr.checked
    /\ run.tr.op \in {"send_video_by_id", "search_received_movie_name"}
    /\ run.tr.op = "send_video_by_id" => run.tr.gate = "pass"
    /\ run.tr.op = "search_received_movie_name" => checked[run.tr.user]

\* C3: whatever the order of the requests of the users, a run that calls
\* copy_message into a user's chat belongs to a deep-link request or a
\* search conversation of that user in which is_user_member returned True.
C3_CopyOnlyAfterCheck ==
  /\ \A u \in Users : conv[u] = GET_MOVIE_NAME => checked[u]
  /\ AllRunsSatisfy(CopyIsChecked)

\* one user is in a conversation opened by a passed check and gets the copy,
\* the other has passed no check
C3_Witness ==
  \E u \in Users, v \in Users :
    /\ u # v
    /\ checked[u] /\ ~checked[v] /\ conv[v] = END
    /\ \E run \in SearchRuns(u) : run.tr.sent # 0

(* -------------------------------- C4 ----------------------------------- *)
AllCallsOk(run) ==
  /\ run.tr.calls # <<>>
  /\ \A i \in 1..Len(run.tr.calls) : run.tr.calls[i].ok

\* the run copied the video, sent the warning and made the cleanup task of u
\* for exactly these two messages
DeliveredAndScheduled(u, run) ==
  /\ run.tr.calls = <<Call("copy_message", "video", TRUE),
                      Call("reply_text", "warning", TRUE)>>
  /\ run.tr.sent # 0 /\ run.tr.warning # 0 /\ run.tr.sent # run.tr.warning
  /\ run.tr.task = Len(tasks) + 1
  /\ run.tasks = Append(tasks, [chat |-> u,
                                message_ids |-> <<run.tr.sent, run.tr.warning>>,
                                pc |-> 0, log |-> <<>>])

C4_DeepLinkDelivers ==
  \A u \in Users, d \in DeepArgs, outs \in GateOuts :
    (Member(outs) /\ FindById(d) # {}) =>
      /\ \A run \in start(u, <<d>>, outs) :
           AllCallsOk(run) => DeliveredAndScheduled(u, run)
      /\ nextMsg[u] + 1 <= MaxMsgId =>
           \E run \in start(u, <<d>>, outs) : AllCallsOk(run)

\* task t has issued delete_message, in its chat, for each of its message ids
BothDeleteCallsIssued(t) ==
  /\ t <= Len(tasks)
  /\ \A k \in 1..Len(tasks[t].message_ids) :
       \E i \in 1..Len(tasks[t].log) :
         /\ tasks[t].log[i].message_id = tasks[t].message_ids[k]
         /\ tasks[t].log[i].chat = tasks[t].chat

\* C4: a deep link of a member for an id in the index, with every transport
\* call succeeding, copies the video, sends the warning and makes a cleanup
\* task for the two message ids in the requester's chat; and every cleanup
\* task made eventually issues a delete call for both of its ids, as long as
\* the event loop keeps running its tasks.
C4_DeliveredThenDeleted ==
  /\ []C4_DeepLinkDelivers
  /\ \A t \in 1..MaxTasks : (t <= Len(tasks)) ~> BothDeleteCallsIssued(t)

\* a cleanup has issued both delete calls while a deep link of another
\* member can be delivered
C4_Witness ==
  /\ \E t \in 1..Len(tasks) : BothDeleteCallsIssued(t) /\ Len(tasks[t].message_ids) = 2
  /\ \E u \in Users, d \in DeepArgs, outs \in GateOuts :
       \E run \in start(u, <<d>>, outs) : AllCallsOk(run) /\ run.tr.task # 0

(* -------------------------------- C5 ----------------------------------- *)
CopyFailed(run) ==
  /\ run.tr.calls # <<>>
  /\ run.tr.calls[1] = Call("copy_message", "video", FALSE)

\* the run answered the failure with the error reply and made no task
ReportedNotScheduled(run) ==
  /\ Len(run.tr.calls) = 2
  /\ run.tr.calls[2].call = "reply_text"
  /\ run.tr.calls[2].what = "error"
  /\ run.tr.task = 0 /\ run.tasks = tasks
  /\ run.tr.sent = 0 /\ run.nextMsg = nextMsg

\* C5: on the deep-link path and on the search path, a run whose
\* copy_message fails sends the error reply to the requester and makes no
\* cleanup task.
C5_CopyFailureReported ==
  \A u \in Users :
    /\ \A outs \in GateOuts : \A run \in DeepLinkRuns(u, outs) :
         CopyFailed(run) => ReportedNotScheduled(run)
    /\ \A run \in SearchRuns(u) : CopyFailed(run) => ReportedNotScheduled(run)

\* the copy can fail on a deep link of one user and on a query of another
C5_Witness ==
  \E u \in Users, v \in Users, outs \in GateOuts :
    /\ \E run \in DeepLinkRuns(u, outs) : CopyFailed(run)
    /\ \E run \in SearchRuns(v) : CopyFailed(run)

(* -------------------------------- C6 ----------------------------------- *)
\* the delete calls of every task are, in order, for the first ids of its list
DeletesInListOrder ==
  \A t \in 1..Len(tasks) :
    LET k == tasks[t]
    IN  /\ k.pc \in 0..(Len(k.message_ids) + 1)
        /\ Len(k.log) = IF k.pc = 0 THEN 0 ELSE k.pc - 1
        /\ \A i \in 1..Len(k.log) :
             k.log[i].message_id = k.message_ids[i] /\ k.log[i].chat = k.chat

\* a step adds at most one delete call to a task and rewrites none
LogOnlyGrows ==
  \A t \in 1..Len(tasks) :
    /\ t <= Len(tasks')
    /\ tasks'[t].message_ids = tasks[t].message_ids
    /\ \/ tasks'[t].log = tasks[t].log
       \/ /\ Len(tasks'[t].log) = Len(tasks[t].log) + 1
          /\ SubSeq(tasks'[t].log, 1, Len(tasks[t].log)) = tasks[t].log

\* C6: a cleanup task that has fired issues one delete call per id of its
\* list, in list order and never twice, and goes on to the remaining ids
\* whether or not a delete call failed.
C6_EachIdOnceInOrder ==
  /\ []DeletesInListOrder
  /\ [][LogOnlyGrows]_vars
  /\ \A t \in 1..MaxTasks :
       (t <= Len(tasks) /\ tasks[t].pc >= 1) ~>
         (t <= Len(tasks) /\ Len(tasks[t].log) = Len(tasks[t].message_ids))

\* a task whose first delete call failed and whose second was issued
C6_Witness ==
  \E t \in 1..Len(tasks) :
    /\ Len(tasks[t].log) = 2
    /\ ~tasks[t].log[1].ok
    /\ tasks[t].log[2].message_id = tasks[t].message_ids[2]

(* -------------------------------- C7 ----------------------------------- *)
UniqueNames == \A r1 \in videos, r2 \in videos : r1.name = r2.name => r1 = r2

\* the run sent the admin exactly this notice
AdminTold(run, what) ==
  /\ Len(run.tr.calls) = 1
  /\ run.tr.calls[1].call = "send_message"
  /\ run.tr.calls[1].what = what

\* with the store working, a post whose stripped caption is a stored name is
\* refused and reported and changes no row; any other name gets a new row
IndexOutcome(caption, run) ==
  LET name == Strip(caption)
  IN  IF \E r \in videos : r.name = name
        THEN run.videos = videos /\ AdminTold(run, "duplicate")
        ELSE /\ run.videos \ videos = {[id |-> run.tr.video, name |-> name,
                                       message_id |-> nextPost]}
             /\ videos \subseteq run.videos
             /\ \A r \in videos : r.id # run.tr.video
             /\ run.tr.calls[1].what = "indexed"

\* C7: no two rows of the index carry the same name, whatever was indexed
\* and deleted; a post with a name not in the index is accepted, and a post
\* with a name that is in it is refused as a duplicate, reported to the
\* admin, and leaves the stored row and its message_id as they were.
C7_NamesUnique ==
  /\ UniqueNames
  /\ \A c \in Captions \ {<<>>} : \A run \in index_video(c) :
       run.tr.db = "ok" => IndexOutcome(c, run)

\* a state in which one post would be refused as a duplicate of a row with
\* another message_id, and another post would be accepted as a second row
C7_Witness ==
  /\ \E c \in Captions, r \in videos :
       /\ r.name = Strip(c) /\ r.message_id # nextPost
       /\ \E run \in index_video(c) : AdminTold(run, "duplicate")
  /\ \E c \in Captions : \E run \in index_video(c) : Cardinality(run.videos) = 2

(* ------------------------------ matching ------------------------------- *)
\* name contains query as a contiguous run of the same characters
Contains(name, query) ==
  \E i \in 0..(Len(name) - Len(query)) : SubSeq(name, i + 1, i + Len(query)) = query

\* some stretch of name of the length of query agrees with it place by
\* place, a letter with the same letter in either case and _ with anything
\* (the queries tried hold no %)
FoldContains(name, query) ==
  \E i \in 0..(Len(name) - Len(query)) :
    \A j \in 1..Len(query) :
      query[j] = "_" \/ Lower(query[j]) = Lower(name[i + j])

\* what delete_video replied
Replied(run, what) ==
  /\ Len(run.tr.calls) = 1
  /\ run.tr.calls[1].call = "reply_text"
  /\ run.tr.calls[1].what = what

(* -------------------------------- C8 ----------------------------------- *)
\* C8 as stated: /delvideo removes every row whose name contains the query,
\* reports success iff some row did, leaves no row that a search for the
\* query would find, and with no such row changes nothing and reports "not
\* found".
C8_AsStated ==
  \A q \in Queries : \A run \in delete_video(ADMIN_ID, q) :
    run.tr.db = "ok" =>
      LET matched == {r \in videos : Contains(r.name, q)}
      IN  /\ Replied(run, "deleted") <=> matched # {}
          /\ run.videos \cap matched = {}
          /\ matched = {} => (run.videos = videos /\ Replied(run, "nothing_deleted"))

\* C8: /delvideo removes the rows whose name matches the query as LIKE
\* '%query%' does (letters in either case, _ for any character) and no other
\* row, reports success iff some row matched, leaves no row that matches, and
\* with no match changes nothing and reports "not found".
C8_DeletesLikeMatches ==
  \A q \in Queries : \A run \in delete_video(ADMIN_ID, q) :
    run.tr.db = "ok" =>
      LET matched == {r \in videos : FoldContains(r.name, q)}
      IN  /\ Replied(run, "deleted") <=> matched # {}
          /\ run.videos = videos \ matched
          /\ \A r \in run.videos : ~FoldContains(r.name, q)
          /\ matched = {} => (run.videos = videos /\ Replied(run, "nothing_deleted"))

\* two rows go in one deletion, one of them matched by letter case alone
C8_Witness ==
  \E q \in Queries : \E run \in delete_video(ADMIN_ID, q) :
    /\ Cardinality(videos) = 2
    /\ run.videos = {}
    /\ Replied(run, "deleted")
    /\ \E r \in videos : ~Contains(r.name, q)

(* -------------------------------- C9 ----------------------------------- *)
\* C9 as stated: the query resolves to a row iff some stored name contains
\* it with the same letter case, and otherwise nothing is delivered.
C9_AsStated ==
  \A u \in Users : \A q \in Texts : \A run \in search_received_movie_name(u, q) :
    run.tr.db = "ok" =>
      /\ run.tr.found = "hit" <=> \E r \in videos : Contains(r.name, q)
      /\ run.tr.found # "hit" => (Replied(run, "notfound") /\ ~Copies(run))

\* C9: the query resolves to a row iff some stored name matches it as LIKE
\* '%query%' does (letters in either case, _ for any character); the row
\* handed to copy_message is one of the matching rows; with no match the
\* reply is "not found" and nothing is copied or scheduled.
C9_ResolvesLikeMatches ==
  \A u \in Users : \A q \in Texts : \A run \in search_received_movie_name(u, q) :
    run.tr.db = "ok" =>
      /\ run.tr.found = "hit" <=> \E r \in videos : FoldContains(r.name, q)
      /\ run.tr.found = "hit" =>
           \E r \in videos : /\ FoldContains(r.name, q)
                             /\ r.id = run.tr.video
                             /\ r.message_id = run.tr.locator
      /\ run.tr.found # "hit" =>
           /\ Replied(run, "notfound") /\ ~Copies(run)
           /\ run.tr.task = 0 /\ run.tasks = tasks

\* a query that no stored name contains is resolved and copied
C9_Witness ==
  \E u \in Users : \E q \in Texts : \E run \in search_received_movie_name(u, q) :
    /\ run.tr.sent # 0
    /\ \A r \in videos : ~Contains(r.name, q)

(* -------------------------------- C10 ---------------------------------- *)
\* C10: for a user the gate lets in, the deep link that spells id i hands
\* copy_message the message_id of the row with id i when there is one, and
\* when there is none it replies "invalid", copies nothing and makes no
\* cleanup task; an argument that is no number finds no row.
C10_ResolvesByExactId ==
  \A u \in Users, outs \in GateOuts :
    Member(outs) =>
      /\ \A i \in 1..MaxPosts : \A run \in start(u, <<IdToArg(i)>>, outs) :
           run.tr.db = "ok" =>
             IF \E r \in videos : r.id = i
               THEN /\ run.tr.found = "hit" /\ run.tr.video = i
                    /\ \E r \in videos : r.id = i /\ r.message_id = run.tr.locator
                    /\ run.tr.calls[1].call = "copy_message"
               ELSE /\ run.tr.found = "miss" /\ Replied(run, "invalid")
                    /\ ~Copies(run) /\ run.tr.locator = 0
                    /\ run.tr.task = 0 /\ run.tasks = tasks
      /\ \A run \in start(u, << <<"x">> >>, outs) :
           run.tr.db = "ok" => (run.tr.found = "miss" /\ Replied(run, "invalid"))

\* id 1 is stored with a message_id other than 1 and is delivered, while the
\* link for id 2 finds nothing
C10_Witness ==
  \E u \in Users, outs \in GateOuts :
    /\ \E r \in videos : r.id = 1 /\ r.message_id = 2
    /\ \E run \in start(u, <<IdToArg(1)>>, outs) : run.tr.sent # 0 /\ run.tr.locator = 2
    /\ \E run \in start(u, <<IdToArg(2)>>, outs) : Replied(run, "invalid")

(* -------------------------------- C11 ---------------------------------- *)
\* the run asked the index nothing, copied nothing and made no cleanup task
NoResolution(run) ==
  /\ run.tr.db = "none" /\ run.tr.found = "none"
  /\ ~Copies(run) /\ run.tr.sent = 0
  /\ run.tr.task = 0 /\ run.tasks = tasks

\* C11: /cancel from a user whose conversation is in GET_MOVIE_NAME puts the
\* conversation back to END, and the run asks the index nothing, copies
\* nothing and makes no cleanup task.
C11_CancelReturnsToIdle ==
  \A u \in Users :
    conv[u] = GET_MOVIE_NAME =>
      \A run \in cancel_search(u) : run.conv[u] = END /\ NoResolution(run)

(* -------------------------------- C12 ---------------------------------- *)
\* C12: a text received in GET_MOVIE_NAME is taken as the query, and after
\* the run the conversation is at END whether the video was found and
\* delivered, not found, or the store or the transport failed.
C12_QueryAlwaysEndsConversation ==
  \A u \in Users :
    conv[u] = GET_MOVIE_NAME =>
      \A text \in Texts :
        /\ search_received_movie_name(u, text) # {}
        /\ \A run \in search_received_movie_name(u, text) :
             run.tr.input = text /\ run.conv[u] = END

(* -------------------------------- C13 ---------------------------------- *)
\* what the run changed belongs to the user it ran for: the conversation,
\* the passed check and the chat of every other user are as before, a query
\* is resolved only for a user in GET_MOVIE_NAME, the copy lands in the
\* requester's chat and the cleanup task is for that chat
OwnEffectsOnly(run) ==
  /\ \A v \in Users \ {run.tr.user} :
       /\ run.conv[v] = conv[v] /\ run.checked[v] = checked[v]
       /\ run.nextMsg[v] = nextMsg[v]
  /\ run.tr.op = "search_received_movie_name" => conv[run.tr.user] = GET_MOVIE_NAME
  /\ run.tr.sent # 0 =>
       /\ run.tr.sent = nextMsg[run.tr.user]
       /\ run.nextMsg[run.tr.user] > nextMsg[run.tr.user]
  /\ Len(run.tasks) >= Len(tasks) /\ SubSeq(run.tasks, 1, Len(tasks)) = tasks
  /\ run.tr.task # 0 => run.tasks[run.tr.task].chat = run.tr.user

\* C13: in every state that the requests of the users, taken in any order,
\* lead to, a run changes the search state of its own user only, resolves a
\* query only for a user who is in GET_MOVIE_NAME, and delivers into the chat
\* of the user who asked.
C13_UsersIndependent == AllRunsSatisfy(OwnEffectsOnly)

\* one user is in GET_MOVIE_NAME and gets one video by name while another,
\* who is not, gets a different video by its link
C13_Witness ==
  \E u \in Users, v \in Users, outs \in GateOuts :
    /\ u # v
    /\ conv[u] = GET_MOVIE_NAME /\ conv[v] = END
    /\ \E r1 \in SearchRuns(u), r2 \in DeepLinkRuns(v, outs) :
         /\ r1.tr.task # 0 /\ r2.tr.task # 0
         /\ r1.tr.video # r2.tr.video

(* -------------------------------- C14 ---------------------------------- *)
\* the last call of the run is a reply to the user that went through
EndsWithReply(run) ==
  /\ run.tr.calls # <<>>
  /\ run.tr.calls[Len(run.tr.calls)].call = "reply_text"
  /\ run.tr.calls[Len(run.tr.calls)].ok

\* an error of the store or of a transport call happened in the run
ErrorInRun(run) ==
  \/ run.tr.db = "fail"
  \/ \E i \in 1..Len(run.tr.calls) : ~run.tr.calls[i].ok

\* C14: no exception of the store or of the transport leaves the handler of
\* a deep link or of a query: a run in which one happened still returns
\* normally and ends with a message to the user.
C14_ErrorsCaughtInHandler ==
  \A u \in Users :
    /\ \A outs \in GateOuts : \A run \in DeepLinkRuns(u, outs) :
         /\ ~run.tr.raised
         /\ ErrorInRun(run) => EndsWithReply(run)
    /\ \A run \in SearchRuns(u) :
         /\ ~run.tr.raised
         /\ ErrorInRun(run) => EndsWithReply(run)

(* -------------------------------- C15 ---------------------------------- *)
\* the run checked the membership again, asked the index nothing and, for a
\* member whose prompt went through, left the conversation in GET_MOVIE_NAME
GatedAndPrompted(u, outs, run) ==
  /\ run.tr.op = "ask_for_movie_name"
  /\ run.tr.gate # "none"
  /\ run.tr.db = "none" /\ run.tr.found = "none"
  /\ (Member(outs) /\ ~run.tr.raised) =>
       /\ run.tr.calls = <<Call("reply_text", "prompt", TRUE)>>
       /\ run.conv[u] = GET_MOVIE_NAME

\* C15: the search button pressed by a user whose conversation is already in
\* GET_MOVIE_NAME is handled as a new entry: the membership is checked again,
\* the prompt is sent again and the one pending query stays pending; the
\* button's text is not taken as a query.
C15_EntryOverwritesPending ==
  \A u \in Users, outs \in GateOuts :
    conv[u] = GET_MOVIE_NAME =>
      /\ SearchEntry(u, outs) # {}
      /\ \A run \in SearchEntry(u, outs) : GatedAndPrompted(u, outs, run)

(* -------------------------------- C16 ---------------------------------- *)
\* the handler that made a cleanup task has returned with the task still
\* asleep and nothing deleted
ReturnsBeforeCleanup(run) ==
  run.tr.task # 0 =>
    /\ ~run.tr.raised
    /\ run.tasks[run.tr.task].pc = 0
    /\ run.tasks[run.tr.task].log = <<>>

\* while a cleanup task sleeps the bot takes requests, /delvideo among them
RequestsNotBlocked ==
  (\E t \in 1..Len(tasks) : tasks[t].pc = 0) =>
     /\ \A q \in Queries : delete_video(ADMIN_ID, q) # {}
     /\ \A u \in Users : help_command(u) # {} /\ start(u, <<>>, <<"member">>) # {}

\* no step takes a task away, changes its chat or its ids, or sets it back
TasksKept ==
  \A t \in 1..Len(tasks) :
    /\ t <= Len(tasks')
    /\ tasks'[t].chat = tasks[t].chat
    /\ tasks'[t].message_ids = tasks[t].message_ids
    /\ tasks'[t].pc >= tasks[t].pc

\* C16: the handler that schedules a cleanup returns while the task is still
\* asleep, requests (the admin's /delvideo too) are handled meanwhile, no
\* request removes or changes a scheduled task, and the task's delete calls
\* are issued afterwards all the same, as long as the event loop runs.
C16_FireAndForget ==
  /\ [](RequestsNotBlocked /\ AllRunsSatisfy(ReturnsBeforeCleanup))
  /\ [][TasksKept]_vars
  /\ \A t \in 1..MaxTasks :
       (t <= Len(tasks) /\ tasks[t].pc = 0) ~>
         (t <= Len(tasks) /\ tasks[t].pc > Len(tasks[t].message_ids))

\* the row that was delivered has been deleted while its cleanup still sleeps
C16_Witness ==
  /\ videos = {}
  /\ \E t \in 1..Len(tasks) : tasks[t].pc = 0

(* -------------------------------- C17 ---------------------------------- *)
\* the message the run copied into the chat is on the id list of the cleanup
\* task the run made for that chat
CopyIsScheduledForDeletion(run) ==
  run.tr.sent # 0 =>
    /\ run.tr.task # 0
    /\ run.tasks[run.tr.task].chat = run.tr.user
    /\ \E k \in 1..Len(run.tasks[run.tr.task].message_ids) :
         run.tasks[run.tr.task].message_ids[k] = run.tr.sent

\* C17: on the deep-link path and on the search path, every message that
\* copy_message put into a user's chat is handed to a cleanup task that will
\* delete it, also when the warning notice that follows the copy fails.
C17_CopiedIsAlwaysScheduled ==
  \A u \in Users :
    /\ \A outs \in GateOuts : \A run \in DeepLinkRuns(u, outs) :
         CopyIsScheduledForDeletion(run)
    /\ \A run \in SearchRuns(u) : CopyIsScheduledForDeletion(run)

(* -------------------------------- C18 ---------------------------------- *)
\* the ids of a task, as a set
IdsOf(task) == {task.message_ids[k] : k \in 1..Len(task.message_ids)}

\* every delete call of a task is in the task's chat, for one of its ids
DeletesOwnMessages ==
  \A t \in 1..Len(tasks) : \A i \in 1..Len(tasks[t].log) :
    /\ tasks[t].log[i].chat = tasks[t].chat
    /\ tasks[t].log[i].message_id \in IdsOf(tasks[t])

\* the ids of a task are two messages that the transport has handed out in
\* the task's chat, and no two tasks share a message of one chat
TasksOwnTheirDelivery ==
  /\ \A t \in 1..Len(tasks) :
       /\ tasks[t].chat \in Users
       /\ Cardinality(IdsOf(tasks[t])) = 2
       /\ \A m \in IdsOf(tasks[t]) : m >= 1 /\ m < nextMsg[tasks[t].chat]
  /\ \A t1 \in 1..Len(tasks), t2 \in 1..Len(tasks) :
       (t1 # t2 /\ tasks[t1].chat = tasks[t2].chat) =>
         IdsOf(tasks[t1]) \cap IdsOf(tasks[t2]) = {}

\* the task a run makes is for the requester's chat and for the copy and the
\* warning of this run
TaskIsForThisDelivery(run) ==
  run.tr.task # 0 =>
    /\ run.tasks[run.tr.task].chat = run.tr.user
    /\ IdsOf(run.tasks[run.tr.task]) = {run.tr.sent, run.tr.warning}
    /\ run.tr.sent = nextMsg[run.tr.user]
    /\ run.tr.warning = nextMsg[run.tr.user] + 1

\* C18: each delete call of a cleanup task is made in the chat of the request
\* that scheduled the task and for the copied message or the warning notice
\* of that delivery; no task deletes in another user's chat or a message of
\* another delivery.
C18_CleanupDeletesOwnDelivery ==
  /\ DeletesOwnMessages
  /\ TasksOwnTheirDelivery
  /\ AllRunsSatisfy(TaskIsForThisDelivery)

\* the cleanups of two users have both deleted in their own chat, the
\* messages carrying the same ids in the two chats
C18_Witness ==
  \E t1 \in 1..Len(tasks), t2 \in 1..Len(tasks) :
    /\ tasks[t1].chat # tasks[t2].chat
    /\ tasks[t1].chat # ADMIN_ID
    /\ IdsOf(tasks[t1]) = IdsOf(tasks[t2])
    /\ Len(tasks[t1].log) = 2 /\ Len(tasks[t2].log) = 2

(* -------------------------------- C19 ---------------------------------- *)
\* the run did nothing: no store access, no call, no change of any table
SilentNoOp(run) ==
  /\ run.tr.calls = <<>> /\ ~run.tr.raised
  /\ run.tr.db = "none" /\ run.tr.found = "none"
  /\ run.videos = videos /\ run.users = users
  /\ run.conv = conv /\ run.tasks = tasks /\ run.nextMsg = nextMsg

\* C19: /getlink and /delvideo sent by a user other than ADMIN_ID, with any
\* argument or none, change no row of the index and send no reply.
C19_AdminOnly ==
  \A u \in Users \ {ADMIN_ID} : \A q \in AdminArgs :
    /\ get_link(u, q) # {} /\ delete_video(u, q) # {}
    /\ \A run \in get_link(u, q) \cup delete_video(u, q) : SilentNoOp(run)

\* a user who is not the admin names a stored video that the admin could
\* get the link of and delete with the same argument
C19_Witness ==
  \E u \in Users \ {ADMIN_ID} : \E q \in Queries :
    /\ FindByName(q) # {}
    /\ \E run \in delete_video(u, q) : run.videos = videos
    /\ \E run \in delete_video(ADMIN_ID, q) : run.videos # videos
    /\ \E run \in get_link(ADMIN_ID, q) : run.tr.video # 0

(* -------------------------------- C20 ---------------------------------- *)
\* the run left every conversation where it was
ConversationKept(run) == run.conv = conv /\ run.checked = checked

\* the run added at most its own user to the registry and removed nobody; a
\* user who is registered is not added again
RegisteredOnce(u, run) ==
  /\ users \subseteq run.users
  /\ run.users \subseteq users \cup {u}
  /\ u \in users => run.users = users

StartHelpStatsFrame ==
  \A u \in Users :
    /\ \A a \in StartArgs : \A outs \in StartOuts(a) : \A run \in start(u, a, outs) :
         ConversationKept(run) /\ RegisteredOnce(u, run)
    /\ \A run \in help_command(u) \cup bot_stats(u) :
         ConversationKept(run) /\ run.users = users

\* C20: /start (with or without a deep-link argument), /help and /stats leave
\* the search conversation of the user as it was, so a user in
\* GET_MOVIE_NAME stays there; /start adds the user to the registry when the
\* user is not in it and changes nothing when the user is; and no step of
\* the bot removes a user from the registry.
C20_StartHelpStatsKeepConversation ==
  /\ []StartHelpStatsFrame
  /\ [][users \subseteq users']_vars

\* a registered user who is in GET_MOVIE_NAME gets a video by deep link and
\* is still in GET_MOVIE_NAME
C20_Witness ==
  \E u \in Users, d \in DeepArgs, outs \in GateOuts :
    /\ conv[u] = GET_MOVIE_NAME
    /\ u \in users
    /\ \E run \in start(u, <<d>>, outs) :
         run.tr.task # 0 /\ run.conv[u] = GET_MOVIE_NAME

====
